---- MODULE Spec2Model ----
(***************************************************************************)
(* OpusFilter (opusfilter/opusfilter.py): the step executor and its        *)
(* handlers, modelled over a filesystem of text files.                     *)
(*                                                                         *)
(* A file is the sequence of its characters, line feeds included, so that  *)
(* the three ways the code cuts a file into lines (iteration and readline, *)
(* str.splitlines, str.rstrip) are computed as Python computes them.       *)
(***************************************************************************)
EXTENDS Integers, Sequences, FiniteSets, TLC

\* ------------------------------------------------------------------ bounds

\* Most lines of an input file of a filter scenario.
MaxLines == 3

\* Most lines (T) of an input file of a subset scenario.
MaxTotal == 3

\* Most rows (N) of an input file of an order_by_rank scenario.
MaxRows == 3

\* ------------------------------------------------------------- characters

NL == "\n"
FF == "\f"
SP == " "

\* Code points of the characters the scenarios use (Python compares str
\* values by code point).
ord(c) ==
  CASE c = NL -> 10
    [] c = FF -> 12
    [] c = SP -> 32
    [] c = "0" -> 48
    [] c = "1" -> 49
    [] c = "2" -> 50
    [] c = "3" -> 51
    [] c = "9" -> 57
    [] c = "m" -> 109
    [] c = "A" -> 65
    [] c = "B" -> 66
    [] c = "C" -> 67
    [] c = "D" -> 68
    [] c = "E" -> 69
    [] c = "a" -> 97
    [] c = "b" -> 98
    [] c = "c" -> 99
    [] c = "d" -> 100
    [] c = "e" -> 101
    [] c = "v" -> 118
    [] c = "w" -> 119
    [] c = "x" -> 120
    [] c = "y" -> 121
    [] c = "z" -> 122

\* str.isspace for one character.
isspace(c) == c \in {NL, FF, SP}

\* The line boundaries of str.splitlines (a superset of the line feed).
islinebreak(c) == c \in {NL, FF}

\* ------------------------------------------------------------ str methods

RECURSIVE rstrip(_)
\* str.rstrip(): the string without its trailing whitespace.
rstrip(s) ==
  IF s # <<>> /\ isspace(s[Len(s)]) THEN rstrip(SubSeq(s, 1, Len(s) - 1)) ELSE s

RECURSIVE str_lt(_, _)
\* s < t for two str values: lexicographic by code point.
str_lt(s, t) ==
  IF t = <<>> THEN FALSE
  ELSE IF s = <<>> THEN TRUE
  ELSE IF ord(Head(s)) # ord(Head(t)) THEN ord(Head(s)) < ord(Head(t))
  ELSE str_lt(Tail(s), Tail(t))

RECURSIVE splitlines_from(_, _, _)
\* str.splitlines() continued: `cur' is the line being read, `acc' the lines
\* read. A line ends at every line boundary; the boundary is dropped; a last
\* line without boundary is kept when it is not empty.
splitlines_from(s, cur, acc) ==
  IF s = <<>> THEN (IF cur = <<>> THEN acc ELSE Append(acc, cur))
  ELSE IF islinebreak(Head(s)) THEN splitlines_from(Tail(s), <<>>, Append(acc, cur))
  ELSE splitlines_from(Tail(s), Append(cur, Head(s)), acc)

\* str.splitlines().
splitlines(s) == splitlines_from(s, <<>>, <<>>)

RECURSIVE readlines_from(_, _, _)
\* Iteration over a text file continued: a line ends after a line feed, which
\* it keeps; what follows the last line feed is a last, unterminated line.
readlines_from(s, cur, acc) ==
  IF s = <<>> THEN (IF cur = <<>> THEN acc ELSE Append(acc, cur))
  ELSE IF Head(s) = NL THEN readlines_from(Tail(s), <<>>, Append(acc, Append(cur, NL)))
  ELSE readlines_from(Tail(s), Append(cur, Head(s)), acc)

\* The lines `for line in fobj' yields for a file of content s.
readlines(s) == readlines_from(s, <<>>, <<>>)

RECURSIVE concat(_)
\* The content written by write() of each element of ss in turn.
concat(ss) == IF ss = <<>> THEN <<>> ELSE Head(ss) \o concat(Tail(ss))


\* ------------------------------------------------------------------ state

VARIABLES
  configuration,  \* self.configuration: [common: [output_directory], steps]
  fs,             \* the filesystem: path -> content, over the files that exist
  op,             \* the entry point of the current run
  overwrite,      \* its overwrite argument
  last,           \* its last argument: {} for None, {n} for n
  pc,             \* where the run is
  exc,            \* the exception that ended the run, "" when none
  num,            \* execute_steps' loop index (0-based, as enumerate gives it)
  loc,            \* the running handler's local variables
  calls,          \* history: the handler calls of the current run
  interrupted     \* history: {i} when the previous run was killed inside step i

vars == <<configuration, fs, op, overwrite, last, pc, exc, num, loc, calls, interrupted>>

\* ------------------------------------------------------------------ files

\* self.output_dir as __init__ sets it: the current directory when the
\* configuration names none.
output_dir ==
  IF configuration.common.output_directory = "" THEN "."
  ELSE configuration.common.output_directory

\* os.path.join(self.output_dir, name), and get_pairs' '{}/{}'.format.
join(name) == <<output_dir, name>>

\* A path given to open() as it stands: relative to the current directory.
cwd(name) == <<".", name>>

\* os.path.isfile.
isfile(files, path) == path \in DOMAIN files

\* open(path, 'w'): the file exists and is empty.
open_w(files, path) == (path :> <<>>) @@ files

\* write(s) on a file opened for writing.
write(files, path, s) == [files EXCEPT ![path] = @ \o s]

\* ------------------------------------------------------------ the executor

\* self.step_functions: the step kinds that have a handler.
step_functions ==
  {"opus_read", "filter", "concatenate", "subset", "train_ngram",
   "train_alignment", "score", "classify", "order_by_rank"}

steps == configuration.steps

\* The step the loop is at, and its parameters.
step == steps[num + 1]
parameters == step.parameters

\* execute_steps' loop is at a step it will dispatch: the list is not
\* exhausted and `last' does not stop it. (execute_step dispatches one step.)
dispatching ==
  /\ pc = "loop"
  /\ num < Len(steps)
  /\ \A l \in last : ~(num + 1 > l)

\* step_functions[step['type']](...) calls the handler of `kind'.
at_step(kind) == dispatching /\ step.type = kind

\* One entry of the history of handler calls.
call(outcome) == [num |-> num, type |-> step.type, outcome |-> outcome, pulled |-> 0]

\* The last entry of the history with its outcome set.
ended(outcome) == [calls EXCEPT ![Len(calls)].outcome = outcome]

\* The handler returns: execute_steps goes on with the next step, execute_step
\* is over.
returns(files, history) ==
  /\ fs' = files
  /\ calls' = history
  /\ loc' = <<>>
  /\ exc' = ""
  /\ IF op = "execute_step"
     THEN pc' = "done" /\ num' = num
     ELSE pc' = "loop" /\ num' = num + 1
  /\ interrupted' = (IF op = "execute_step" THEN {} ELSE interrupted)
  /\ UNCHANGED <<configuration, op, overwrite, last>>

\* The handler goes on at `label' with local variables `locals'.
goes_on(label, files, locals, history) ==
  /\ fs' = files
  /\ calls' = history
  /\ loc' = locals
  /\ pc' = label
  /\ UNCHANGED <<configuration, op, overwrite, last, exc, num, interrupted>>

\* The handler raises: nothing catches it, the run is over. The files it
\* had opened for writing stay as they are.
raises(exception, files, history) ==
  /\ fs' = files
  /\ calls' = history
  /\ loc' = <<>>
  /\ pc' = "raised"
  /\ exc' = exception
  /\ interrupted' = {}
  /\ UNCHANGED <<configuration, op, overwrite, last, num>>

\* "Output files exists, skipping step": the handler returns at once.
skips == returns(fs, Append(calls, call("skipped")))

\* A run may start when none is under way.
at_rest == pc \in {"idle", "done", "raised", "killed"}

\* execute_steps(overwrite=ow, last=l).
execute_steps(ow, l) ==
  /\ at_rest
  /\ op' = "execute_steps"
  /\ overwrite' = ow
  /\ last' = l
  /\ pc' = "loop"
  /\ num' = 0
  /\ exc' = ""
  /\ calls' = <<>>
  /\ loc' = <<>>
  /\ UNCHANGED <<configuration, fs, interrupted>>

\* execute_step(n, overwrite=ow): the step at n (first = 1, last = -1), which
\* is self.configuration['steps'][n if n < 0 else n - 1] with Python's
\* indexing: a negative index counts from the end, so n = 0 is the last step.
execute_step(n, ow) ==
  /\ at_rest
  /\ op' = "execute_step"
  /\ overwrite' = ow
  /\ last' = {}
  /\ calls' = <<>>
  /\ loc' = <<>>
  /\ LET i == IF n < 0 THEN n ELSE n - 1
         index == IF i < 0 THEN Len(steps) + i ELSE i
     IN IF index < 0 \/ index >= Len(steps)
        THEN pc' = "raised" /\ exc' = "IndexError" /\ num' = 0
        ELSE pc' = "loop" /\ exc' = "" /\ num' = index
  /\ UNCHANGED <<configuration, fs, interrupted>>

\* The loop of execute_steps ends: the list is exhausted, or `last' is
\* reached ("Stopping after step").
stops ==
  /\ pc = "loop"
  /\ ~dispatching
  /\ pc' = "done"
  /\ interrupted' = {}
  /\ UNCHANGED <<configuration, fs, op, overwrite, last, exc, num, loc, calls>>

\* unknown_step with the lookup made forgiving (step_functions.get with a
\* handler that does nothing): the step is passed over.
unknown_step_ignored ==
  /\ dispatching
  /\ step.type \notin step_functions
  /\ returns(fs, calls)

\* self.step_functions[step['type']] for a type that is no key: KeyError,
\* raised when the loop reaches the step.
unknown_step ==
  /\ dispatching
  /\ step.type \notin step_functions
  /\ raises("KeyError", fs, calls)

\* The process is killed while a handler runs.
killed ==
  /\ pc \notin {"idle", "loop", "done", "raised", "killed"}
  /\ pc' = "killed"
  /\ loc' = <<>>
  /\ calls' = ended("killed")
  /\ interrupted' = {num}
  /\ UNCHANGED <<configuration, fs, op, overwrite, last, exc, num>>

\* ------------------------------------------------------------- PairStream

\* tokenization.get_tokenize(None): the line as it is.
tokenize(line) == line

RECURSIVE pair_generator_zip(_, _, _)
\* pair_generator_from with the two files zipped: the stream ends with the
\* shorter file.
pair_generator_zip(src_lines, tgt_lines, acc) ==
  IF src_lines = <<>> \/ tgt_lines = <<>> THEN acc
  ELSE pair_generator_zip(Tail(src_lines), Tail(tgt_lines),
         Append(acc, <<tokenize(rstrip(Head(src_lines))), tokenize(rstrip(Head(tgt_lines)))>>))

RECURSIVE pair_generator_from(_, _, _)
\* The pairs pair_generator yields from the lines left in the two files:
\* one per source line, the target line read with readline(), which gives
\* the empty string at the end of the file.
pair_generator_from(src_lines, tgt_lines, acc) ==
  IF src_lines = <<>> THEN acc
  ELSE LET src_line == Head(src_lines)
           tgt_line == IF tgt_lines = <<>> THEN <<>> ELSE Head(tgt_lines)
           rest == IF tgt_lines = <<>> THEN <<>> ELSE Tail(tgt_lines)
       IN pair_generator_from(Tail(src_lines), rest,
            Append(acc, <<tokenize(rstrip(src_line)), tokenize(rstrip(tgt_line))>>))

\* pair_generator(source_file_name, target_file_name) on files of these
\* contents: the sequence of the pairs it yields.
pair_generator(src, tgt) == pair_generator_from(readlines(src), readlines(tgt), <<>>)

\* --------------------------------------------------------- FilterPipeline

\* The filters of the scenarios. A filter accepts or rejects a pair.
accept(name, pair) ==
  CASE name = "SrcNonEmpty" -> pair[1] # <<>>
    [] name = "TgtNonEmpty" -> pair[2] # <<>>

\* FilterPipeline.filter keeps a pair that every filter accepts.
passes(filters, pair) == \A i \in 1..Len(filters) : accept(filters[i], pair)

\* FilterPipeline.filterfalse keeps a pair that some filter rejects.
fails(filters, pair) == \E i \in 1..Len(filters) : ~accept(filters[i], pair)

\* FilterPipeline.score: one record per pair, here its line in the score
\* file: for each filter, 1 when it accepts the pair and 0 when not.
score(filters, pair) ==
  [i \in 1..Len(filters) |-> IF accept(filters[i], pair) THEN "1" ELSE "0"]

\* ------------------------------------------------------------ filter_data

\* selected with the filterfalse parameter not read.
selected_filter_only(params, pair) == passes(params.filters, pair)

\* The view filter_data takes of the pipeline: filterfalse when the step
\* sets it, filter when not.
selected(params, pair) ==
  IF params.filterfalse THEN fails(params.filters, pair)
  ELSE passes(params.filters, pair)

\* limit_reached with the test off by one: `idx >= limit'.
limit_reached_late(limit, idx) == limit # 0 /\ idx >= limit

\* `if limit and idx >= limit - 1': the loop breaks after this pair. A
\* limit of 0 stands for None: both are false.
limit_reached(limit, idx) == limit # 0 /\ idx >= limit - 1

\* filter_data up to its loop: the skip, or the two outputs opened for
\* writing.
filter_data ==
  /\ at_step("filter")
  /\ LET src_out == join(parameters.src_output)
         tgt_out == join(parameters.tgt_output)
     IN IF ~overwrite /\ isfile(fs, src_out) /\ isfile(fs, tgt_out)
        THEN skips
        ELSE goes_on("filter_data", open_w(open_w(fs, src_out), tgt_out),
                     [idx |-> 0], Append(calls, call("running")))

\* One pull of filter_data's loop from the pair stream: the input files are
\* opened at the first pull; a pair the view keeps is written to both
\* outputs; the loop ends when the stream does or when the limit is reached.
filter_data_loop ==
  /\ pc = "filter_data"
  /\ LET src_in == join(parameters.src_input)
         tgt_in == join(parameters.tgt_input)
         src_out == join(parameters.src_output)
         tgt_out == join(parameters.tgt_output)
         pulled == calls[Len(calls)].pulled
     IN IF ~isfile(fs, src_in) \/ ~isfile(fs, tgt_in)
        THEN raises("FileNotFoundError", fs, ended("raised"))
        ELSE LET pairs == pair_generator(fs[src_in], fs[tgt_in])
             IN IF pulled = Len(pairs)
                THEN returns(fs, ended("completed"))
                ELSE LET pair == pairs[pulled + 1]
                         history == [calls EXCEPT ![Len(calls)].pulled = pulled + 1]
                         written == write(write(fs, src_out, Append(pair[1], NL)),
                                          tgt_out, Append(pair[2], NL))
                     IN IF ~selected(parameters, pair)
                        THEN goes_on("filter_data", fs, loc, history)
                        ELSE IF limit_reached(parameters.limit, loc.idx)
                        THEN returns(written, [history EXCEPT ![Len(calls)].outcome = "completed"])
                        ELSE goes_on("filter_data", written, [idx |-> loc.idx + 1], history)

\* ------------------------------------------------------------ concatenate

\* concatenate up to its loop: the skip, or the output opened for writing.
concatenate ==
  /\ at_step("concatenate")
  /\ LET outfile == join(parameters.output)
     IN IF ~overwrite /\ isfile(fs, outfile)
        THEN skips
        ELSE goes_on("concatenate", open_w(fs, outfile), [infile |-> 1],
                     Append(calls, call("running")))

\* One input file of concatenate's loop, written line by line to the output.
concatenate_loop ==
  /\ pc = "concatenate"
  /\ LET outfile == join(parameters.output)
         inputs == parameters.inputs
     IN IF loc.infile > Len(inputs)
        THEN returns(fs, ended("completed"))
        ELSE IF ~isfile(fs, join(inputs[loc.infile]))
        THEN raises("FileNotFoundError", fs, ended("raised"))
        ELSE goes_on("concatenate",
                     write(fs, outfile, concat(readlines(fs[join(inputs[loc.infile])]))),
                     [infile |-> loc.infile + 1], calls)

\* ------------------------------------------------------------- get_subset

\* _get_total_lines on a file of content s.
get_total_lines(s) == Len(readlines(s))

RECURSIVE sorted_indices_ascending(_)
\* sorted_indices without reverse=True: sorted(indices).
sorted_indices_ascending(indices) ==
  IF indices = {} THEN <<>>
  ELSE LET least == CHOOSE i \in indices : \A j \in indices : i <= j
       IN <<least>> \o sorted_indices_ascending(indices \ {least})

RECURSIVE sorted_indices(_)
\* sorted(indices, reverse=True).
sorted_indices(indices) ==
  IF indices = {} THEN <<>>
  ELSE LET top == CHOOSE i \in indices : \A j \in indices : j <= i
       IN <<top>> \o sorted_indices(indices \ {top})

RECURSIVE yield_subset_from(_, _, _, _, _)
\* _yield_subset's loop at item idx (0-based), looking for index cur, with
\* the indices still to find on the stack `remaining' (smallest last).
yield_subset_from(iterable, idx, cur, remaining, acc) ==
  IF idx >= Len(iterable) THEN acc
  ELSE IF idx # cur THEN yield_subset_from(iterable, idx + 1, cur, remaining, acc)
  ELSE IF remaining = <<>> THEN Append(acc, iterable[idx + 1])
  ELSE yield_subset_from(iterable, idx + 1, remaining[Len(remaining)],
                         SubSeq(remaining, 1, Len(remaining) - 1),
                         Append(acc, iterable[idx + 1]))

\* _yield_subset(iterable, indices): the items it yields.
yield_subset(iterable, indices) ==
  IF indices = {} THEN <<>>
  ELSE LET remaining == sorted_indices(indices)
       IN yield_subset_from(iterable, 0, remaining[Len(remaining)],
                            SubSeq(remaining, 1, Len(remaining) - 1), <<>>)

\* The values random.sample(range(total), size) may return, as sets: every
\* choice of `size' distinct indices. It raises ValueError when there are none.
random_sample(total, size) ==
  {sample \in SUBSET (0..(total - 1)) : Cardinality(sample) = size}

\* The orders random.shuffle may leave a list in.
random_shuffle(lines) ==
  {[i \in 1..Len(lines) |-> lines[perm[i]]] : perm \in Permutations(1..Len(lines))}

\* get_subset up to the extraction of the source lines: the skip, the count
\* of the source lines, the sample, the source output opened for writing.
get_subset ==
  /\ at_step("subset")
  /\ LET src_in == join(parameters.src_input)
         src_out == join(parameters.src_output)
         tgt_out == join(parameters.tgt_output)
         size == parameters.size
     IN IF ~overwrite /\ isfile(fs, src_out) /\ isfile(fs, tgt_out)
        THEN skips
        ELSE IF ~isfile(fs, src_in)
        THEN raises("FileNotFoundError", fs, Append(calls, call("raised")))
        ELSE IF random_sample(get_total_lines(fs[src_in]), size) = {}
        THEN raises("ValueError", fs, Append(calls, call("raised")))
        ELSE \E sample \in random_sample(get_total_lines(fs[src_in]), size) :
               goes_on("get_subset_src", open_w(fs, src_out),
                       [total |-> get_total_lines(fs[src_in]), sample |-> sample,
                        lines |-> yield_subset(readlines(fs[src_in]), sample)],
                       Append(calls, call("running")))

\* One line written to the source output; after the last one, the target
\* side: the same sample, or with shuffle_target a second sample whose lines
\* are shuffled, and the target output opened for writing.
get_subset_src ==
  /\ pc = "get_subset_src"
  /\ LET src_out == join(parameters.src_output)
         tgt_in == join(parameters.tgt_input)
         tgt_out == join(parameters.tgt_output)
     IN IF loc.lines # <<>>
        THEN goes_on("get_subset_src", write(fs, src_out, Head(loc.lines)),
                     [loc EXCEPT !.lines = Tail(@)], calls)
        ELSE IF ~isfile(fs, tgt_in)
        THEN raises("FileNotFoundError", fs, ended("raised"))
        ELSE IF parameters.shuffle_target
        THEN \E sample \in random_sample(loc.total, parameters.size) :
               \E lines \in random_shuffle(yield_subset(readlines(fs[tgt_in]), sample)) :
                 goes_on("get_subset_tgt", open_w(fs, tgt_out),
                         [loc EXCEPT !.sample = sample, !.lines = lines], calls)
        ELSE goes_on("get_subset_tgt", open_w(fs, tgt_out),
                     [loc EXCEPT !.lines = yield_subset(readlines(fs[tgt_in]), loc.sample)],
                     calls)

\* One line written to the target output.
get_subset_tgt ==
  /\ pc = "get_subset_tgt"
  /\ IF loc.lines # <<>>
     THEN goes_on("get_subset_tgt", write(fs, join(parameters.tgt_output), Head(loc.lines)),
                  [loc EXCEPT !.lines = Tail(@)], calls)
     ELSE returns(fs, ended("completed"))

\* ---------------------------------------------------------- order_by_rank

RECURSIVE zip(_, _, _)
\* zip of three lists: as long as the shortest.
zip(a, b, c) ==
  IF a = <<>> \/ b = <<>> \/ c = <<>> THEN <<>>
  ELSE <<<<Head(a), Head(b), Head(c)>>>> \o zip(Tail(a), Tail(b), Tail(c))

\* The key of order_by_rank's sort: the rank, a str.
key(t) == t[3]

\* insert for a sort without reverse=True: after the rows whose key is not
\* greater.
insert_ascending(rows, t) ==
  LET before == Cardinality({i \in 1..Len(rows) : ~str_lt(key(t), key(rows[i]))})
  IN SubSeq(rows, 1, before) \o <<t>> \o SubSeq(rows, before + 1, Len(rows))

\* The place of row t in a list sorted so far: after the rows whose key is
\* not smaller than its own (the sort is stable).
insert(rows, t) ==
  LET before == Cardinality({i \in 1..Len(rows) : ~str_lt(key(rows[i]), key(t))})
  IN SubSeq(rows, 1, before) \o <<t>> \o SubSeq(rows, before + 1, Len(rows))

RECURSIVE sorted_from(_, _)
sorted_from(rows, acc) ==
  IF rows = <<>> THEN acc ELSE sorted_from(Tail(rows), insert(acc, Head(rows)))

\* sorted(zipped, key=lambda t: t[2], reverse=True).
sorted(zipped) == sorted_from(zipped, <<>>)

\* order_by_rank up to its loop: the three inputs and the three outputs
\* opened (no test of overwrite), the inputs read, cut with splitlines,
\* zipped and sorted.
order_by_rank ==
  /\ at_step("order_by_rank")
  /\ LET input_src == cwd(parameters.input_src)
         input_tgt == cwd(parameters.input_tgt)
         input_ranks == cwd(parameters.input_ranks)
         opened == open_w(open_w(open_w(fs, cwd(parameters.output_src)),
                                 cwd(parameters.output_tgt)),
                          cwd(parameters.output_ranks))
     IN IF ~isfile(fs, input_src) \/ ~isfile(fs, input_tgt) \/ ~isfile(fs, input_ranks)
        THEN raises("FileNotFoundError", fs, Append(calls, call("raised")))
        ELSE goes_on("order_by_rank", opened,
                     [zipped |-> sorted(zip(splitlines(opened[input_src]),
                                            splitlines(opened[input_tgt]),
                                            splitlines(opened[input_ranks])))],
                     Append(calls, call("running")))

\* One row of order_by_rank's loop written to the three outputs.
order_by_rank_loop ==
  /\ pc = "order_by_rank"
  /\ IF loc.zipped = <<>>
     THEN returns(fs, ended("completed"))
     ELSE LET t == Head(loc.zipped)
          IN goes_on("order_by_rank",
                     write(write(write(fs, cwd(parameters.output_src), Append(t[1], NL)),
                                 cwd(parameters.output_tgt), Append(t[2], NL)),
                           cwd(parameters.output_ranks), Append(t[3], NL)),
                     [zipped |-> Tail(loc.zipped)], calls)

\* ---------------------------------------------------------- read_from_opus

\* What OpusRead.printPairs writes for the corpus of the scenarios.
opus_corpus == [src |-> <<"a", NL, "b", NL>>, tgt |-> <<"x", NL, "y", NL>>]

\* read_from_opus: the skip, or the corpus written to the two outputs.
read_from_opus ==
  /\ at_step("opus_read")
  /\ LET src_out == join(parameters.src_output)
         tgt_out == join(parameters.tgt_output)
     IN IF ~overwrite /\ isfile(fs, src_out) /\ isfile(fs, tgt_out)
        THEN skips
        ELSE returns(write(write(open_w(open_w(fs, src_out), tgt_out),
                                 src_out, opus_corpus.src),
                           tgt_out, opus_corpus.tgt),
                     Append(calls, call("completed")))

\* ------------------------------------------------------------ train_ngram

RECURSIVE lstrip(_)
lstrip(s) == IF s # <<>> /\ isspace(Head(s)) THEN lstrip(Tail(s)) ELSE s

\* str.strip().
strip(s) == lstrip(rstrip(s))

\* ' '.join(tokenizer.tokenize(line)) for lm.LMTokenizer: the tokens are
\* the characters of the line.
segmented(line) ==
  concat([i \in 1..Len(line) |-> IF i = 1 THEN <<line[i]>> ELSE <<SP, line[i]>>])

\* What lm.train and word_alignment.make_priors write: a model.
model_file == <<"m", NL>>

\* train_ngram up to its loop: the skip, or the data opened and the
\* segmented file opened for writing.
train_ngram ==
  /\ at_step("train_ngram")
  /\ LET model_out == join(parameters.model)
         data == join(parameters.data)
         seg == join(parameters.data \o ".seg.gz")
     IN IF ~overwrite /\ isfile(fs, model_out)
        THEN skips
        ELSE IF ~isfile(fs, data)
        THEN raises("FileNotFoundError", fs, Append(calls, call("raised")))
        ELSE goes_on("train_ngram", open_w(fs, seg), <<>>, Append(calls, call("running")))

\* The segmented lines written, and lm.train on them: it writes the model.
train_ngram_train ==
  /\ pc = "train_ngram"
  /\ LET model_out == join(parameters.model)
         lines == readlines(fs[join(parameters.data)])
         seg == join(parameters.data \o ".seg.gz")
         tokens == [i \in 1..Len(lines) |-> Append(segmented(strip(lines[i])), NL)]
     IN returns(write(open_w(write(fs, seg, concat(tokens)), model_out),
                      model_out, model_file),
                ended("completed"))

\* -------------------------------------------------------- train_alignment

\* train_alignment: the skip, or make_priors on the pair stream: it writes
\* the priors.
train_alignment ==
  /\ at_step("train_alignment")
  /\ LET model_out == join(parameters.output)
     IN IF ~overwrite /\ isfile(fs, model_out)
        THEN skips
        ELSE IF ~isfile(fs, join(parameters.src_data)) \/ ~isfile(fs, join(parameters.tgt_data))
        THEN raises("FileNotFoundError", fs, Append(calls, call("raised")))
        ELSE returns(write(open_w(fs, model_out), model_out, model_file),
                     Append(calls, call("completed")))

\* ------------------------------------------------------------- score_data

\* score_data up to its loop: the skip, or the output opened for writing.
score_data ==
  /\ at_step("score")
  /\ LET score_out == join(parameters.output)
     IN IF ~overwrite /\ isfile(fs, score_out)
        THEN skips
        ELSE goes_on("score_data", open_w(fs, score_out), <<>>,
                     Append(calls, call("running")))

\* One pull of score_data's loop: the record of the next pair written.
score_data_loop ==
  /\ pc = "score_data"
  /\ LET src_in == join(parameters.src_input)
         tgt_in == join(parameters.tgt_input)
         pulled == calls[Len(calls)].pulled
     IN IF ~isfile(fs, src_in) \/ ~isfile(fs, tgt_in)
        THEN raises("FileNotFoundError", fs, ended("raised"))
        ELSE LET pairs == pair_generator(fs[src_in], fs[tgt_in])
             IN IF pulled = Len(pairs)
                THEN returns(fs, ended("completed"))
                ELSE goes_on("score_data",
                             write(fs, join(parameters.output),
                                   Append(score(parameters.filters, pairs[pulled + 1]), NL)),
                             loc, [calls EXCEPT ![Len(calls)].pulled = pulled + 1])

\* --------------------------------------------------------------- classify

\* classify: no test of overwrite; the classifier is fitted and assigns its
\* probabilities.
classify ==
  /\ at_step("classify")
  /\ returns(fs, Append(calls, call("completed")))

\* ------------------------------------------------------- filter scenarios

RECURSIVE texts(_, _)
\* The files of at most n lines drawn from `lines'.
texts(lines, n) ==
  IF n = 0 THEN {<<>>}
  ELSE LET shorter == texts(lines, n - 1)
       IN shorter \cup {t \o l : t \in {s \in shorter : Len(readlines(s)) = n - 1}, l \in lines}

filter_step(filters, filterfalse, limit, src_output, tgt_output) ==
  [type |-> "filter",
   parameters |-> [src_input |-> "src", tgt_input |-> "tgt",
                   src_output |-> src_output, tgt_output |-> tgt_output,
                   filters |-> filters, filterfalse |-> filterfalse, limit |-> limit]]

Batteries == {<<>>, <<"SrcNonEmpty">>, <<"SrcNonEmpty", "TgtNonEmpty">>}

\* A filter step and its filterfalse twin over the same input.
FilterConfigurations ==
  {[common |-> [output_directory |-> ""],
    steps |-> <<filter_step(F, FALSE, L, "pass.src", "pass.tgt"),
                filter_step(F, TRUE, L, "fail.src", "fail.tgt")>>]
     : F \in Batteries, L \in 0..MaxLines}

\* The source files: lines that are empty or end in a blank, the last line
\* with or without its line feed. The target files: lines empty or not.
FilterFiles ==
  {(cwd("src") :> s) @@ (cwd("tgt") :> t)
     : s \in LET whole == texts({<<NL>>, <<"a", SP, NL>>}, MaxLines)
             IN whole \cup {SubSeq(e, 1, Len(e) - 1) : e \in whole \ {<<>>}},
       t \in texts({<<NL>>, <<"x", NL>>}, MaxLines)}

\* The state after construction: nothing runs yet.
idle ==
  /\ op = "execute_steps"
  /\ overwrite = FALSE
  /\ last = {}
  /\ pc = "idle"
  /\ exc = ""
  /\ num = 0
  /\ loc = <<>>
  /\ calls = <<>>
  /\ interrupted = {}

InitFilter ==
  /\ configuration \in FilterConfigurations
  /\ fs \in FilterFiles
  /\ idle

NextFilter ==
  \/ \E ow \in BOOLEAN : execute_steps(ow, {})
  \/ stops
  \/ filter_data
  \/ filter_data_loop

SpecFilter == InitFilter /\ [][NextFilter]_vars
\* ------------------------------------------------------- subset scenarios

Letters == <<"a", "b", "c", "d", "e">>
Targets == <<"v", "w", "x", "y", "z">>

\* The file of lines letters[1..n], each ended by a line feed, the last one
\* only when `ended_by_newline'.
corpus(letters, n, ended_by_newline) ==
  LET text == concat([i \in 1..n |-> <<letters[i], NL>>])
  IN IF ended_by_newline \/ n <= 0 THEN text ELSE SubSeq(text, 1, Len(text) - 1)

SubsetConfigurations ==
  {[common |-> [output_directory |-> ""],
    steps |-> <<[type |-> "subset",
                 parameters |-> [src_input |-> "src", tgt_input |-> "tgt",
                                 src_output |-> "sub.src", tgt_output |-> "sub.tgt",
                                 size |-> K, shuffle_target |-> shuffle]]>>]
     : K \in 0..(MaxTotal + 1), shuffle \in BOOLEAN}

\* Source and target of T lines each, and a target one line short.
SubsetFiles ==
  {(cwd("src") :> corpus(Letters, T, nl[1])) @@ (cwd("tgt") :> corpus(Targets, T - short, nl[2]))
     : T \in 0..MaxTotal, nl \in BOOLEAN \X BOOLEAN, short \in {0, 1}}

InitSubset ==
  /\ configuration \in SubsetConfigurations
  /\ fs \in SubsetFiles
  /\ idle

NextSubset ==
  \/ \E ow \in BOOLEAN : execute_steps(ow, {})
  \/ stops
  \/ get_subset
  \/ get_subset_src
  \/ get_subset_tgt

SpecSubset == InitSubset /\ [][NextSubset]_vars

\* -------------------------------------------------- order_by_rank scenarios

Sources == <<<<"A">>, <<"B">>, <<"C">>, <<"D">>, <<"E">>>>

Ranks == {<<"1">>, <<"2">>, <<"3">>, <<"1", "0">>}

RECURSIVE lists(_, _)
\* The lists of n items of `items'.
lists(items, n) ==
  IF n = 0 THEN {<<>>} ELSE {Append(l, x) : l \in lists(items, n - 1), x \in items}

\* The file of these lines, each ended by a line feed.
file(lines) == concat([i \in 1..Len(lines) |-> Append(lines[i], NL)])

RankConfiguration ==
  [common |-> [output_directory |-> ""],
   steps |-> <<[type |-> "order_by_rank",
                parameters |-> [input_src |-> "src", input_tgt |-> "tgt",
                                input_ranks |-> "ranks", output_src |-> "rank.src",
                                output_tgt |-> "rank.tgt", output_ranks |-> "rank.ranks"]]>>]

\* N rows: the source lines A, B, ... (in one variant the first of them has
\* a form feed in it), the target lines v, w, ..., any ranks.
RankFiles ==
  {(cwd("src") :> file([i \in 1..N |-> IF i = 1 /\ ff THEN <<"A", FF, "a">> ELSE Sources[i]]))
     @@ (cwd("tgt") :> corpus(Targets, N, TRUE))
     @@ (cwd("ranks") :> file(ranks))
     : N \in 0..MaxRows, ff \in BOOLEAN, ranks \in UNION {lists(Ranks, n) : n \in 0..MaxRows}}

InitRank ==
  /\ configuration = RankConfiguration
  /\ fs \in {f \in RankFiles :
               \/ get_total_lines(f[cwd("ranks")]) = get_total_lines(f[cwd("src")])
               \/ get_total_lines(f[cwd("ranks")]) = get_total_lines(f[cwd("src")]) - 1}
  /\ idle

NextRank ==
  \/ \E ow \in BOOLEAN : execute_steps(ow, {})
  \/ stops
  \/ order_by_rank
  \/ order_by_rank_loop

SpecRank == InitRank /\ [][NextRank]_vars

\* ---------------------------------------------------- pipeline scenarios

Filters == <<"SrcNonEmpty", "TgtNonEmpty">>

StepCatalogue ==
  [opus_read |->
     [type |-> "opus_read",
      parameters |-> [src_output |-> "opus.src", tgt_output |-> "opus.tgt"]],
   filter |-> filter_step(Filters, FALSE, 0, "pass.src", "pass.tgt"),
   filter_opus |->
     [type |-> "filter",
      parameters |-> [src_input |-> "opus.src", tgt_input |-> "opus.tgt",
                      src_output |-> "pass.src", tgt_output |-> "pass.tgt",
                      filters |-> Filters, filterfalse |-> FALSE, limit |-> 1]],
   concatenate |->
     [type |-> "concatenate", parameters |-> [inputs |-> <<"src", "tgt">>, output |-> "all"]],
   subset |->
     [type |-> "subset",
      parameters |-> [src_input |-> "src", tgt_input |-> "tgt", src_output |-> "sub.src",
                      tgt_output |-> "sub.tgt", size |-> 1, shuffle_target |-> FALSE]],
   train_ngram |->
     [type |-> "train_ngram", parameters |-> [data |-> "src", model |-> "lm"]],
   train_alignment |->
     [type |-> "train_alignment",
      parameters |-> [src_data |-> "src", tgt_data |-> "tgt", output |-> "priors"]],
   score |->
     [type |-> "score",
      parameters |-> [src_input |-> "src", tgt_input |-> "tgt", output |-> "scores",
                      filters |-> Filters]],
   classify |-> [type |-> "classify", parameters |-> [criterion |-> "CE"]],
   order_by_rank |-> RankConfiguration.steps[1],
   unknown |-> [type |-> "remove_duplicates", parameters |-> <<>>]]

Pipelines ==
  {<<StepCatalogue[kind]>> : kind \in DOMAIN StepCatalogue \ {"filter_opus"}}
    \cup {<<StepCatalogue.concatenate, StepCatalogue.unknown>>,
          <<StepCatalogue.unknown, StepCatalogue.concatenate>>,
          <<StepCatalogue.opus_read, StepCatalogue.filter_opus>>,
          <<StepCatalogue.subset, StepCatalogue.unknown, StepCatalogue.score>>}

\* The input files, in the output directory `dir'.
PipelineFiles(dir) ==
  (<<dir, "src">> :> <<"a", SP, NL, NL>>) @@ (<<dir, "tgt">> :> <<"x", NL, "y", NL>>)
    @@ (<<dir, "ranks">> :> <<"1", NL, "2", NL>>)

Init ==
  /\ configuration \in {[common |-> [output_directory |-> dir], steps |-> pipeline]
                          : pipeline \in Pipelines, dir \in {"", "work"}}
  /\ fs = PipelineFiles(output_dir)
  /\ idle

Next ==
  \/ \E ow \in BOOLEAN, l \in {{}} \cup {{n} : n \in 1..Len(steps)} : execute_steps(ow, l)
  \/ \E ow \in BOOLEAN, n \in (-Len(steps))..(Len(steps) + 1) : execute_step(n, ow)
  \/ stops
  \/ unknown_step
  \/ killed
  \/ read_from_opus
  \/ filter_data
  \/ filter_data_loop
  \/ concatenate
  \/ concatenate_loop
  \/ get_subset
  \/ get_subset_src
  \/ get_subset_tgt
  \/ train_ngram
  \/ train_ngram_train
  \/ train_alignment
  \/ score_data
  \/ score_data_loop
  \/ classify
  \/ order_by_rank
  \/ order_by_rank_loop

Spec == Init /\ [][Next]_vars

\* ----------------------------------------------------------------- claims

\* The last handler call of the run is one of a step of this type and has
\* run to its end (it was not skipped).
completed(type) ==
  /\ calls # <<>>
  /\ calls[Len(calls)].type = type
  /\ calls[Len(calls)].outcome = "completed"

\* The parameters of the step of the last handler call.
called == steps[calls[Len(calls)].num + 1].parameters

RECURSIVE ascending(_)
\* The members of a set of numbers, smallest first.
ascending(indices) ==
  IF indices = {} THEN <<>>
  ELSE LET least == CHOOSE i \in indices : \A j \in indices : i <= j
       IN <<least>> \o ascending(indices \ {least})

\* The lines at the (0-based) row indices, in ascending order of the index.
rows_at(lines, indices) ==
  [k \in 1..Cardinality(indices) |-> lines[ascending(indices)[k] + 1]]

\* b holds the items of a in some order.
is_permutation(a, b) ==
  /\ Len(a) = Len(b)
  /\ \E perm \in Permutations(1..Len(a)) : \A i \in 1..Len(a) : b[i] = a[perm[i]]

\* The subset step has run on a source and a target of T lines each.
subset_ran(shuffle_target) ==
  /\ completed("subset")
  /\ called.shuffle_target = shuffle_target
  /\ get_total_lines(fs[join(called.src_input)]) = get_total_lines(fs[join(called.tgt_input)])

\* C3: after a subset step in paired mode on inputs of T lines each, there
\* are K distinct row indices such that the source output is the source
\* lines at these indices in ascending order and the target output is the
\* target lines at the same indices: K lines each, row n of both from the
\* same original row. With K = 0 both outputs exist and are empty.
C3_paired_subset ==
  subset_ran(FALSE) =>
    LET src == readlines(fs[join(called.src_input)])
        tgt == readlines(fs[join(called.tgt_input)])
        src_out == fs[join(called.src_output)]
        tgt_out == fs[join(called.tgt_output)]
        K == called.size
    IN /\ Len(readlines(src_out)) = K
       /\ Len(readlines(tgt_out)) = K
       /\ \E indices \in SUBSET (0..(Len(src) - 1)) :
            /\ Cardinality(indices) = K
            /\ readlines(src_out) = rows_at(src, indices)
            /\ readlines(tgt_out) = rows_at(tgt, indices)
       /\ (K = 0 => src_out = <<>> /\ tgt_out = <<>>)

\* C3's case: two rows out of three, not the first two, the last source line
\* without a line feed.
C3_witness ==
  /\ subset_ran(FALSE)
  /\ called.size = 2
  /\ fs[join(called.src_input)] = corpus(Letters, 3, FALSE)
  /\ fs[join(called.src_output)] = <<"a", NL, "c">>
  /\ fs[join(called.tgt_output)] = <<"v", NL, "x", NL>>

\* C4: after a subset step with shuffle_target on inputs of T lines each,
\* the source output is the source lines at K distinct indices in ascending
\* order, the target output is a permutation of the target lines at K
\* distinct indices, and both outputs have K lines.
C4_shuffled_subset ==
  subset_ran(TRUE) =>
    LET src == readlines(fs[join(called.src_input)])
        tgt == readlines(fs[join(called.tgt_input)])
        src_out == readlines(fs[join(called.src_output)])
        tgt_out == readlines(fs[join(called.tgt_output)])
        samples == {indices \in SUBSET (0..(Len(src) - 1)) : Cardinality(indices) = called.size}
    IN /\ Len(src_out) = called.size
       /\ Len(tgt_out) = called.size
       /\ \E indices \in samples : src_out = rows_at(src, indices)
       /\ \E indices \in samples : is_permutation(rows_at(tgt, indices), tgt_out)

\* C5: after order_by_rank on three inputs of N lines each, every output has
\* N lines, the output rows are a permutation of the input rows (source,
\* target, rank), and no rank is smaller, as a string, than the one after it.
C5_order_by_rank ==
  LET lines(name) == readlines(fs[cwd(name)])
      N == Len(lines(called.input_src))
      input == zip(lines(called.input_src), lines(called.input_tgt), lines(called.input_ranks))
      output == zip(lines(called.output_src), lines(called.output_tgt), lines(called.output_ranks))
  IN (/\ completed("order_by_rank")
      /\ Len(lines(called.input_tgt)) = N
      /\ Len(lines(called.input_ranks)) = N)
     => /\ Len(lines(called.output_src)) = N
        /\ Len(lines(called.output_tgt)) = N
        /\ Len(lines(called.output_ranks)) = N
        /\ is_permutation(input, output)
        /\ \A i \in 1..(Len(output) - 1) : ~str_lt(output[i][3], output[i + 1][3])

\* order_by_rank has run on the ranks 3, 1, 2 and the source lines A, B, C.
scenario_2 ==
  /\ completed("order_by_rank")
  /\ fs[cwd(called.input_ranks)] = <<"3", NL, "1", NL, "2", NL>>
  /\ fs[cwd(called.input_src)] = <<"A", NL, "B", NL, "C", NL>>

\* C6 as stated: the source output is then C, A, B.
C6_stated == scenario_2 => fs[cwd(called.output_src)] = <<"C", NL, "A", NL, "B", NL>>

\* C6: order_by_rank on the ranks 3, 1, 2 and the source lines A, B, C
\* writes the source output A, C, B: the rows by rank 3, 2, 1.
C6_order_by_rank ==
  scenario_2 =>
    /\ fs[cwd(called.output_src)] = <<"A", NL, "C", NL, "B", NL>>
    /\ fs[cwd(called.output_ranks)] = <<"3", NL, "2", NL, "1", NL>>

C6_witness == scenario_2 /\ pc = "done"

\* ---------------------------------------------------------- filter claims

\* The members of a sequence at the positions in `keep', in their order.
restrict(seq, keep) ==
  [k \in 1..Cardinality(keep) |-> seq[ascending(keep)[k]]]

\* One side (1: source, 2: target) of these pairs as the lines of a file.
side(pairs, n) == [k \in 1..Len(pairs) |-> Append(pairs[k][n], NL)]

\* The pairs of the input of the filter step with these parameters.
input_pairs(params) == pair_generator(fs[join(params.src_input)], fs[join(params.tgt_input)])

\* The two output files of the filter step with these parameters hold these
\* pairs, one per line, in this order.
outputs_are(params, pairs) ==
  /\ readlines(fs[join(params.src_output)]) = side(pairs, 1)
  /\ readlines(fs[join(params.tgt_output)]) = side(pairs, 2)

\* The run has executed (not skipped) the filter step and then its
\* filterfalse twin.
both_views_ran ==
  /\ Len(calls) = 2
  /\ \A i \in 1..2 : calls[i].type = "filter" /\ calls[i].outcome = "completed"
  /\ ~steps[1].parameters.filterfalse
  /\ steps[2].parameters.filterfalse

\* C2: with no limit, the output of the filter step is the input pairs that
\* every filter accepts and the output of its filterfalse twin the input
\* pairs that some filter rejects, each in input order: every input pair
\* (by position) is in exactly one of the two outputs.
C2_filter_partition ==
  (both_views_ran /\ steps[1].parameters.limit = 0) =>
    LET P == input_pairs(steps[1].parameters)
        F == steps[1].parameters.filters
        accepted == {i \in 1..Len(P) : \A k \in 1..Len(F) : accept(F[k], P[i])}
        rejected == {i \in 1..Len(P) : \E k \in 1..Len(F) : ~accept(F[k], P[i])}
    IN /\ accepted \cap rejected = {}
       /\ accepted \cup rejected = 1..Len(P)
       /\ outputs_are(steps[1].parameters, restrict(P, accepted))
       /\ outputs_are(steps[2].parameters, restrict(P, rejected))

\* C2's case (scenario 3): one pair fails the first filter only, one the
\* second only; both are in the filterfalse output and the filter output
\* is empty.
C2_witness ==
  /\ both_views_ran
  /\ steps[1].parameters.limit = 0
  /\ steps[1].parameters.filters = <<"SrcNonEmpty", "TgtNonEmpty">>
  /\ input_pairs(steps[1].parameters) = <<<<<<>>, <<"x">>>>, <<<<"a">>, <<>>>>>>
  /\ fs[join(steps[1].parameters.src_output)] = <<>>
  /\ fs[join(steps[2].parameters.src_output)] = <<NL, "a", NL>>
  /\ fs[join(steps[2].parameters.tgt_output)] = <<"x", NL, NL>>

\* C8: pair_generator over a source of S lines and a target of T lines
\* yields S pairs, pair i made of source line i and of target line i, or of
\* the empty line when i > T; a step that reads the stream to its end pulls
\* S pairs, and no step pulls more.
C8_pair_generator ==
  LET src == readlines(fs[cwd("src")])
      tgt == readlines(fs[cwd("tgt")])
      pairs == pair_generator(fs[cwd("src")], fs[cwd("tgt")])
  IN /\ Len(pairs) = Len(src)
     /\ \A i \in 1..Len(src) :
          /\ pairs[i][1] = rstrip(src[i])
          /\ pairs[i][2] = (IF i <= Len(tgt) THEN rstrip(tgt[i]) ELSE <<>>)
     /\ \A i \in 1..Len(calls) :
          /\ calls[i].pulled <= Len(src)
          /\ (calls[i].outcome = "completed" /\ steps[calls[i].num + 1].parameters.limit = 0)
               => calls[i].pulled = Len(src)

\* C8's case: a target shorter than the source, read to the end.
C8_witness ==
  /\ completed("filter")
  /\ called.limit = 0
  /\ get_total_lines(fs[cwd("tgt")]) < get_total_lines(fs[cwd("src")])
  /\ calls[Len(calls)].pulled = 2
  /\ input_pairs(called)[2] = <<<<"a">>, <<>>>>

\* The first n members of a sequence.
first(seq, n) == SubSeq(seq, 1, n)

\* C9: a filter step with limit L >= 1 writes the first min(L, number of
\* selected pairs) selected pairs, in input order, to both outputs, and
\* pulls no pair after the L-th selected one: when it ends it has pulled the
\* input up to that pair, or all of it when fewer than L are selected.
C9_limit ==
  \A i \in 1..Len(calls) :
    LET params == steps[calls[i].num + 1].parameters
        P == input_pairs(params)
        chosen == {k \in 1..Len(P) : selected(params, P[k])}
        L == params.limit
        stop == IF Cardinality(chosen) >= L THEN ascending(chosen)[L] ELSE Len(P)
    IN (calls[i].type = "filter" /\ L >= 1 /\ calls[i].outcome \in {"running", "completed"})
       => /\ calls[i].pulled <= stop
          /\ calls[i].outcome = "completed" =>
               /\ calls[i].pulled = stop
               /\ outputs_are(params, first(restrict(P, chosen),
                                            IF Cardinality(chosen) >= L THEN L
                                            ELSE Cardinality(chosen)))

\* C9's case: limit 1, two pairs selected, the second never pulled.
C9_witness ==
  /\ completed("filter")
  /\ called.limit = 1
  /\ Len(input_pairs(called)) = 2
  /\ \A k \in 1..2 : selected(called, input_pairs(called)[k])
  /\ calls[Len(calls)].pulled = 1
  /\ Len(readlines(fs[join(called.src_output)])) = 1

\* -------------------------------------------------------- executor claims

\* The output files a step declares.
outputs(s) ==
  CASE s.type \in {"opus_read", "filter", "subset"} ->
         {join(s.parameters.src_output), join(s.parameters.tgt_output)}
    [] s.type \in {"concatenate", "train_alignment", "score"} -> {join(s.parameters.output)}
    [] s.type = "train_ngram" -> {join(s.parameters.model)}
    [] s.type = "order_by_rank" ->
         {cwd(s.parameters.output_src), cwd(s.parameters.output_tgt),
          cwd(s.parameters.output_ranks)}
    [] OTHER -> {}

\* The loop is about to call the handler of a step whose declared outputs
\* all exist, with overwrite disabled.
materialized ==
  /\ dispatching
  /\ step.type \in step_functions
  /\ ~overwrite
  /\ \A path \in outputs(step) : isfile(fs, path)

\* C1: a step of any kind executed with overwrite disabled when all its
\* declared outputs exist changes no file.
C1_skip_mutates_nothing == [][materialized => fs' = fs]_vars

\* C10: a step that the previous run was killed in, its declared outputs
\* left in place, is skipped by a run with overwrite disabled, which leaves
\* the files as they are.
C10_truncated_is_complete ==
  [][(materialized /\ num \in interrupted /\ outputs(step) # {})
       => (fs' = fs /\ calls' = Append(calls, call("skipped")))]_vars

\* The positions (1-based) of the steps of unknown kind.
unknown_steps == {i \in 1..Len(steps) : steps[i].type \notin step_functions}

\* C7 as stated: when execute_steps fails on a step of unknown kind, no step
\* has run.
C7_stated ==
  (op = "execute_steps" /\ exc = "KeyError") =>
    \A i \in 1..Len(calls) : calls[i].outcome = "skipped"

\* C7: execute_steps fails on a step of unknown kind when its loop reaches
\* the step, not before. The handlers of the steps before it have been
\* called, in order, and have returned; none is called for the unknown step
\* or a later one; and the run ends without error only when `last' stops
\* it before the unknown step.
C7_fails_on_reaching ==
  op = "execute_steps" =>
    /\ \A i \in 1..Len(calls) :
         /\ calls[i].num = i - 1
         /\ \A p \in unknown_steps : i < p
    /\ exc = "KeyError" =>
         /\ num + 1 \in unknown_steps
         /\ Len(calls) = num
         /\ \A i \in 1..Len(calls) : calls[i].outcome \in {"skipped", "completed"}
    /\ pc = "done" => \A p \in unknown_steps : \E l \in last : l < p

\* C7's case: the step before the unknown one has run and written its file.
C7_witness ==
  /\ op = "execute_steps"
  /\ exc = "KeyError"
  /\ Len(calls) = 1
  /\ calls[1].type = "concatenate"
  /\ calls[1].outcome = "completed"
  /\ fs[join("all")] = fs[join("src")] \o fs[join("tgt")]
====
